---- MODULE Spec2Model ----
(***************************************************************************)
(* Model of panel_air_quality_dashboard.py: the index engine, calc_aqi     *)
(* (PM2.5 concentration -> AQI) and get_aqi_status (AQI -> band), called   *)
(* one after the other as create_aqi_card does; the loading of the latest  *)
(* row of every site; the builders of the panes; and the dashboard, whose  *)
(* panes are rebuilt by the watchers of the city selector.                 *)
(*                                                                         *)
(* Datetimes are counted in hours.                                         *)
(*                                                                         *)
(* Concentrations are fixed-point numbers counted in tenths of a ug/m3,    *)
(* the resolution of the breakpoints in the source (12, 35.4, ... 500.4):  *)
(* the model value 354 is the concentration 35.4.  On this grid every      *)
(* quotient below is the exact value of the source expression, and         *)
(* int_trunc is Python's int(): truncation toward zero.                    *)
(***************************************************************************)
EXTENDS Integers, Sequences, FiniteSets

VARIABLES
    \* one reading going through create_aqi_card
    pm25, aqi, branch, status, pc,
    \* concurrent callers of the engine: caller -> its call frame (locals)
    frames,
    \* the module-level namespace the callers share (latest_data, cities,
    \* widgets ...), abstracted to a token
    module_state,
    \* one call of a builder: the function, its arguments, its result
    call,
    \* the rows of the table defra_uk_air_quality, in storage order
    table,
    \* the module-level latest_data, and whether it has been loaded
    latest_data, loaded,
    \* the widgets' values
    city_selector, time_range,
    \* the panes' objects
    map_pane, aqi_card, pollutant_cards, aqi_graph, graph_header,
    \* watcher calls of the change event being processed, not yet run
    pending,
    \* a deployment script: what it finds on the machine (the files of the
    \* working directory, git, what the user types), the external commands
    \* it has run with their outcomes, and the script's own position and
    \* locals
    env, commands, proc

engineVars == <<pm25, aqi, branch, status, pc>>
callVars == <<frames, module_state, call>>
dataVars == <<table, latest_data, loaded>>

paneVars == <<map_pane, aqi_card, pollutant_cards, aqi_graph, graph_header>>
dashVars == <<city_selector, time_range, map_pane, aqi_card, pollutant_cards,
              aqi_graph, graph_header, pending>>

deployVars == <<env, commands, proc>>

vars == <<pm25, aqi, branch, status, pc, frames, module_state, call,
          table, latest_data, loaded,
          city_selector, time_range, map_pane, aqi_card, pollutant_cards,
          aqi_graph, graph_header, pending, env, commands, proc>>

\* ---- bounds ----
\* largest concentration fed to calc_aqi, in tenths (above 500.4)
MaxConc == 5100
\* magnitude of the most negative concentration fed to calc_aqi, in tenths
MaxNeg == 30
\* largest index handed directly to get_aqi_status
MaxIndex == 620
\* magnitude of the most negative index handed directly to get_aqi_status
MaxNegIndex == 40
\* number of concurrent callers of the engine
NumCallers == 2
\* the callers' readings are 0, SampleStep, ..., NumSamples * SampleStep
SampleStep == 850
NumSamples == 6
\* number of distinct values of the shared module state, less one
MaxModuleState == 2
\* largest number of rows of a table handed to load_latest_data
MaxRows == 3
\* datetimes of those rows are 1..MaxTime (hours)
MaxTime == 2
\* largest number of readings of a site in a dashboard table
MaxHist == 2
\* largest number of readings of the city whose historical graph is built
MaxReadings == 26

Conc == (0 - MaxNeg)..MaxConc
Index == (0 - MaxNegIndex)..MaxIndex

\* int() replaced by math.floor(): rounds toward minus infinity
int_floor(n, d) == n \div d

\* ---- Python's int() applied to the rational n/d, d > 0 ----
int_trunc(n, d) == IF n >= 0 THEN n \div d ELSE 0 - ((0 - n) \div d)

\* a missing reading: the float NaN, kept apart from every concentration
NaN == 0 - 1000000

\* the comparison with NaN treated as an ordinary (very small) number
le_number(x, c) == x <= c

\* x <= c on floats: every comparison with NaN is false
le(x, c) == x # NaN /\ x <= c

\* ---- calc_aqi: which arm of the if/elif chain is taken ----
calc_aqi_branch(p) ==
    IF le(p, 120) THEN 1
    ELSE IF le(p, 354) THEN 2
    ELSE IF le(p, 554) THEN 3
    ELSE IF le(p, 1504) THEN 4
    ELSE IF le(p, 2504) THEN 5
    ELSE IF le(p, 3504) THEN 6
    ELSE IF le(p, 5004) THEN 7
    ELSE 8

\* calc_aqi with the fourth arm scaled by 50 instead of 100
calc_aqi_span50(p) ==
    IF le(p, 120) THEN int_trunc(p * 50, 120)
    ELSE IF le(p, 354) THEN int_trunc(50 * (354 - 120) + (p - 120) * 50, 354 - 120)
    ELSE IF le(p, 554) THEN int_trunc(100 * (554 - 354) + (p - 354) * 50, 554 - 354)
    ELSE IF le(p, 1504) THEN int_trunc(150 * (1504 - 554) + (p - 554) * 50, 1504 - 554)
    ELSE IF le(p, 2504) THEN int_trunc(200 * (2504 - 1504) + (p - 1504) * 100, 2504 - 1504)
    ELSE IF le(p, 3504) THEN int_trunc(300 * (3504 - 2504) + (p - 2504) * 100, 3504 - 2504)
    ELSE IF le(p, 5004) THEN int_trunc(400 * (5004 - 3504) + (p - 3504) * 100, 5004 - 3504)
    ELSE 500

\* calc_aqi without the saturating last arm: the seventh arm extrapolates
calc_aqi_nosat(p) ==
    IF le(p, 120) THEN int_trunc(p * 50, 120)
    ELSE IF le(p, 354) THEN int_trunc(50 * (354 - 120) + (p - 120) * 50, 354 - 120)
    ELSE IF le(p, 554) THEN int_trunc(100 * (554 - 354) + (p - 354) * 50, 554 - 354)
    ELSE IF le(p, 1504) THEN int_trunc(150 * (1504 - 554) + (p - 554) * 100, 1504 - 554)
    ELSE IF le(p, 2504) THEN int_trunc(200 * (2504 - 1504) + (p - 1504) * 100, 2504 - 1504)
    ELSE IF le(p, 3504) THEN int_trunc(300 * (3504 - 2504) + (p - 2504) * 100, 3504 - 2504)
    ELSE int_trunc(400 * (5004 - 3504) + (p - 3504) * 100, 5004 - 3504)

\* calc_aqi that saturates at the wrong constant
calc_aqi_sat499(p) ==
    IF le(p, 120) THEN int_trunc(p * 50, 120)
    ELSE IF le(p, 354) THEN int_trunc(50 * (354 - 120) + (p - 120) * 50, 354 - 120)
    ELSE IF le(p, 554) THEN int_trunc(100 * (554 - 354) + (p - 354) * 50, 554 - 354)
    ELSE IF le(p, 1504) THEN int_trunc(150 * (1504 - 554) + (p - 554) * 100, 1504 - 554)
    ELSE IF le(p, 2504) THEN int_trunc(200 * (2504 - 1504) + (p - 1504) * 100, 2504 - 1504)
    ELSE IF le(p, 3504) THEN int_trunc(300 * (3504 - 2504) + (p - 2504) * 100, 3504 - 2504)
    ELSE IF le(p, 5004) THEN int_trunc(400 * (5004 - 3504) + (p - 3504) * 100, 5004 - 3504)
    ELSE 499

\* calc_aqi that rounds the first arm to nearest instead of truncating
calc_aqi_round(p) ==
    IF le(p, 120) THEN int_trunc(2 * p * 50 + 120, 2 * 120)
    ELSE IF le(p, 354) THEN int_trunc(50 * (354 - 120) + (p - 120) * 50, 354 - 120)
    ELSE IF le(p, 554) THEN int_trunc(100 * (554 - 354) + (p - 354) * 50, 554 - 354)
    ELSE IF le(p, 1504) THEN int_trunc(150 * (1504 - 554) + (p - 554) * 100, 1504 - 554)
    ELSE IF le(p, 2504) THEN int_trunc(200 * (2504 - 1504) + (p - 1504) * 100, 2504 - 1504)
    ELSE IF le(p, 3504) THEN int_trunc(300 * (3504 - 2504) + (p - 2504) * 100, 3504 - 2504)
    ELSE IF le(p, 5004) THEN int_trunc(400 * (5004 - 3504) + (p - 3504) * 100, 5004 - 3504)
    ELSE 500

\* ---- calc_aqi(pm25), p in tenths of a ug/m3 ----
\* int(a + (p - lo)/(hi - lo)*m) is int_trunc(a*(hi - lo) + (p - lo)*m, hi - lo)
calc_aqi(p) ==
    IF le(p, 120) THEN int_trunc(p * 50, 120)
    ELSE IF le(p, 354) THEN int_trunc(50 * (354 - 120) + (p - 120) * 50, 354 - 120)
    ELSE IF le(p, 554) THEN int_trunc(100 * (554 - 354) + (p - 354) * 50, 554 - 354)
    ELSE IF le(p, 1504) THEN int_trunc(150 * (1504 - 554) + (p - 554) * 100, 1504 - 554)
    ELSE IF le(p, 2504) THEN int_trunc(200 * (2504 - 1504) + (p - 1504) * 100, 2504 - 1504)
    ELSE IF le(p, 3504) THEN int_trunc(300 * (3504 - 2504) + (p - 2504) * 100, 3504 - 2504)
    ELSE IF le(p, 5004) THEN int_trunc(400 * (5004 - 3504) + (p - 3504) * 100, 5004 - 3504)
    ELSE 500

\* get_aqi_status that validates the expected domain [0, 500] first
get_aqi_status_checked(a) ==
    IF a < 0 \/ a > 500 THEN <<"Invalid", "U+2753", "#808080", "#f0f0f0">>
    ELSE IF a <= 50 THEN <<"Good", "U+1F60A", "#00e400", "#e8f5e8">>
    ELSE IF a <= 100 THEN <<"Moderate", "U+1F610", "#ffff00", "#fffde7">>
    ELSE IF a <= 150 THEN <<"Unhealthy for Sensitive Groups", "U+1F637", "#ff7e00", "#fff3e0">>
    ELSE IF a <= 200 THEN <<"Unhealthy", "U+1F637", "#ff0000", "#ffebee">>
    ELSE IF a <= 300 THEN <<"Very Unhealthy", "U+1F922", "#8f3f97", "#f3e5f5">>
    ELSE <<"Hazardous", "U+2620", "#7e0023", "#fce4ec">>

\* get_aqi_status with the colour of one band pasted into the next
get_aqi_status_pasted(a) ==
    IF a <= 50 THEN <<"Good", "U+1F60A", "#00e400", "#e8f5e8">>
    ELSE IF a <= 100 THEN <<"Moderate", "U+1F610", "#ffff00", "#fffde7">>
    ELSE IF a <= 150 THEN <<"Unhealthy for Sensitive Groups", "U+1F637", "#ff7e00", "#fff3e0">>
    ELSE IF a <= 200 THEN <<"Unhealthy", "U+1F637", "#ff7e00", "#ffebee">>
    ELSE IF a <= 300 THEN <<"Very Unhealthy", "U+1F922", "#8f3f97", "#f3e5f5">>
    ELSE <<"Hazardous", "U+2620", "#7e0023", "#fce4ec">>

\* get_aqi_status with strict comparisons
get_aqi_status_strict(a) ==
    IF a < 50 THEN <<"Good", "U+1F60A", "#00e400", "#e8f5e8">>
    ELSE IF a < 100 THEN <<"Moderate", "U+1F610", "#ffff00", "#fffde7">>
    ELSE IF a < 150 THEN <<"Unhealthy for Sensitive Groups", "U+1F637", "#ff7e00", "#fff3e0">>
    ELSE IF a < 200 THEN <<"Unhealthy", "U+1F637", "#ff0000", "#ffebee">>
    ELSE IF a < 300 THEN <<"Very Unhealthy", "U+1F922", "#8f3f97", "#f3e5f5">>
    ELSE <<"Hazardous", "U+2620", "#7e0023", "#fce4ec">>

\* ---- get_aqi_status(aqi): (label, emoji, colour, background colour) ----
get_aqi_status(a) ==
    IF a <= 50 THEN <<"Good", "U+1F60A", "#00e400", "#e8f5e8">>
    ELSE IF a <= 100 THEN <<"Moderate", "U+1F610", "#ffff00", "#fffde7">>
    ELSE IF a <= 150 THEN <<"Unhealthy for Sensitive Groups", "U+1F637", "#ff7e00", "#fff3e0">>
    ELSE IF a <= 200 THEN <<"Unhealthy", "U+1F637", "#ff0000", "#ffebee">>
    ELSE IF a <= 300 THEN <<"Very Unhealthy", "U+1F922", "#8f3f97", "#f3e5f5">>
    ELSE <<"Hazardous", "U+2620", "#7e0023", "#fce4ec">>

\* Python's None, as a city name
None == "None"

\* no deployment script is running
NoDeploy ==
    /\ env = <<>>
    /\ commands = <<>>
    /\ proc = <<>>

\* the dashboard is not part of the run: widgets and panes hold nothing
NoDashboard ==
    /\ city_selector = None
    /\ time_range = "Last 24 Hours"
    /\ map_pane = <<>>
    /\ aqi_card = <<>>
    /\ pollutant_cards = <<>>
    /\ aqi_graph = <<>>
    /\ graph_header = <<>>
    /\ pending = <<>>

\* ---- the reading pipeline of create_aqi_card ----
\* pc = "input": a reading pm25 is at hand, nothing computed yet
\* pc = "calc":  aqi holds the index
\* pc = "done":  status holds the classification of aqi
Init ==
    /\ pm25 \in Conc
    /\ aqi = 0
    /\ branch = 0
    /\ status = <<>>
    /\ pc = "input"
    /\ frames = <<>>
    /\ module_state = 0
    /\ call = <<>>
    /\ table = <<>>
    /\ latest_data = <<>>
    /\ loaded = FALSE
    /\ NoDashboard
    /\ NoDeploy

\* aqi = calc_aqi(city_data['pm25'])
CalcAqi ==
    /\ pc = "input"
    /\ aqi' = calc_aqi(pm25)
    /\ branch' = calc_aqi_branch(pm25)
    /\ pc' = "calc"
    /\ UNCHANGED <<pm25, status>>
    /\ UNCHANGED callVars
    /\ UNCHANGED dataVars
    /\ UNCHANGED dashVars
    /\ UNCHANGED deployVars

\* status, emoji, color, bg_color = get_aqi_status(aqi)
GetAqiStatus ==
    /\ pc = "calc"
    /\ status' = get_aqi_status(aqi)
    /\ pc' = "done"
    /\ UNCHANGED <<pm25, aqi, branch>>
    /\ UNCHANGED callVars
    /\ UNCHANGED dataVars
    /\ UNCHANGED dashVars
    /\ UNCHANGED deployVars

Next == CalcAqi \/ GetAqiStatus

Spec == Init /\ [][Next]_vars

\* ---- get_aqi_status called on an arbitrary integer index ----
InitStatus ==
    /\ pm25 = 0
    /\ aqi \in Index
    /\ branch = 0
    /\ status = <<>>
    /\ pc = "calc"
    /\ frames = <<>>
    /\ module_state = 0
    /\ call = <<>>
    /\ table = <<>>
    /\ latest_data = <<>>
    /\ loaded = FALSE
    /\ NoDashboard
    /\ NoDeploy

NextStatus == GetAqiStatus

SpecStatus == InitStatus /\ [][NextStatus]_vars

\* ---- the engine called by several callers at once ----
Callers == 1..NumCallers
Samples == {k * SampleStep : k \in 0..NumSamples} \cup {NaN}

\* a caller's frame: its reading, the parameter binding of the running call
\* (arg), the arm selected, the results, and its position
\*   "idle" -> "select" -> "compute" : inside calc_aqi
\*   "calc" : calc_aqi has returned, inside get_aqi_status
\*   "done" : get_aqi_status has returned
NewFrame(p) ==
    [pm25 |-> p, arg |-> 0, arm |-> 0, aqi |-> 0, status |-> <<>>, pc |-> "idle"]

\* a variant that keeps the argument in a module-level variable between steps
call_step_global_arg(f, m) ==
    IF f.pc = "idle" THEN <<[f EXCEPT !.arg = f.pm25, !.pc = "select"], f.pm25>>
    ELSE IF f.pc = "select" THEN <<[f EXCEPT !.arm = calc_aqi_branch(m), !.pc = "compute"], m>>
    ELSE IF f.pc = "compute" THEN <<[f EXCEPT !.aqi = calc_aqi(m), !.pc = "calc"], m>>
    ELSE <<[f EXCEPT !.status = get_aqi_status(f.aqi), !.pc = "done"], m>>

\* one step of a caller: <<its frame after the step, the module state after
\* the step>>.  Both functions use their parameter and constants only.
call_step(f, m) ==
    IF f.pc = "idle" THEN <<[f EXCEPT !.arg = f.pm25, !.pc = "select"], m>>
    ELSE IF f.pc = "select" THEN <<[f EXCEPT !.arm = calc_aqi_branch(f.arg), !.pc = "compute"], m>>
    ELSE IF f.pc = "compute" THEN <<[f EXCEPT !.aqi = calc_aqi(f.arg), !.pc = "calc"], m>>
    ELSE <<[f EXCEPT !.status = get_aqi_status(f.aqi), !.pc = "done"], m>>

InitCallers ==
    /\ pm25 = 0
    /\ aqi = 0
    /\ branch = 0
    /\ status = <<>>
    /\ pc = "done"
    /\ frames \in [Callers -> {NewFrame(p) : p \in Samples}]
    /\ module_state \in 0..MaxModuleState
    /\ call = <<>>
    /\ table = <<>>
    /\ latest_data = <<>>
    /\ loaded = FALSE
    /\ NoDashboard
    /\ NoDeploy

CallerStep(c) ==
    /\ frames[c].pc # "done"
    /\ frames' = [frames EXCEPT ![c] = call_step(frames[c], module_state)[1]]
    /\ module_state' = call_step(frames[c], module_state)[2]
    /\ UNCHANGED call
    /\ UNCHANGED engineVars
    /\ UNCHANGED dataVars
    /\ UNCHANGED dashVars
    /\ UNCHANGED deployVars

NextCallers == \E c \in Callers : CallerStep(c)

SpecCallers == InitCallers /\ [][NextCallers]_vars

\* ---- the data: rows of defra_uk_air_quality ----
\* the site names of the model, in the order sorted() gives them
SiteOrder == <<"Bath", "Leeds", "York">>

\* latitude and longitude of a site, in tenths of a degree
SiteCoords ==
    [Bath |-> <<514, 0 - 24>>, Leeds |-> <<538, 0 - 15>>, York |-> <<540, 0 - 11>>]

\* a row: datetime in hours, pm25 and pm10 in tenths of a ug/m3
Row(s, d, p) ==
    [site |-> s, datetime |-> d, pm25 |-> p, pm10 |-> p + 55, no2 |-> 21, o3 |-> 43,
     latitude |-> SiteCoords[s][1], longitude |-> SiteCoords[s][2]]

\* the rows of a sequence picked by a set of positions, in sequence order
RECURSIVE RowsAt(_, _)
RowsAt(s, keep) ==
    IF s = <<>> THEN <<>>
    ELSE LET front == RowsAt(SubSeq(s, 1, Len(s) - 1), keep)
         IN IF Len(s) \in keep THEN Append(front, s[Len(s)]) ELSE front

\* df.sort_values("datetime"): the default sort is not stable, so rows of
\* equal datetime may come out in any order; every ordering of the rows by
\* non-decreasing datetime is a possible result
RECURSIVE sort_values(_)
sort_values(t) ==
    IF t = <<>> THEN {<<>>}
    ELSE LET n == Len(t)
             least == {i \in 1..n : \A j \in 1..n : t[i].datetime <= t[j].datetime}
             without(i) == SubSeq(t, 1, i - 1) \o SubSeq(t, i + 1, n)
         IN UNION {{<<t[i]>> \o rest : rest \in sort_values(without(i))} : i \in least}

\* head(1) written for tail(1): the first row of every site
groupby_head_1(s) ==
    RowsAt(s, {i \in 1..Len(s) : \A j \in 1..(i - 1) : s[j].site # s[i].site})

\* groupby("site").tail(1): the last row of every site, in frame order
groupby_tail_1(s) ==
    RowsAt(s, {i \in 1..Len(s) : \A j \in (i + 1)..Len(s) : s[j].site # s[i].site})

\* load_latest_data(): the possible results for a table
load_latest_data(t) == {groupby_tail_1(s) : s \in sort_values(t)}

\* df["site"].values / .unique() as a set
Sites(df) == {df[i].site : i \in 1..Len(df)}

\* sorted(latest_data["site"].unique())
sorted_sites(df) == SelectSeq(SiteOrder, LAMBDA c : c \in Sites(df))

\* ---- loading the table ----
LoadSites == {"Bath", "Leeds"}
LoadRows == {Row(s, d, p) : s \in LoadSites, d \in 1..MaxTime, p \in {50, 400}}
LoadTables == UNION {[1..n -> LoadRows] : n \in 0..MaxRows}

InitLoad ==
    /\ pm25 = 0
    /\ aqi = 0
    /\ branch = 0
    /\ status = <<>>
    /\ pc = "done"
    /\ frames = <<>>
    /\ module_state = 0
    /\ call = <<>>
    /\ table \in LoadTables
    /\ latest_data = <<>>
    /\ loaded = FALSE
    /\ NoDashboard
    /\ NoDeploy

\* latest_data = load_latest_data()
LoadLatestData ==
    /\ ~loaded
    /\ latest_data' \in load_latest_data(table)
    /\ loaded' = TRUE
    /\ UNCHANGED <<table>>
    /\ UNCHANGED engineVars
    /\ UNCHANGED callVars
    /\ UNCHANGED dashVars
    /\ UNCHANGED deployVars

NextLoad == LoadLatestData

SpecLoad == InitLoad /\ [][NextLoad]_vars

\* ---- the builders ----
\* "if city": None and the empty string are false
Truthy(city) == city # None /\ city # ""

\* df[df['site'] == city].iloc[0]
FirstRow(df, city) ==
    LET at == {i \in 1..Len(df) : df[i].site = city}
    IN df[CHOOSE i \in at : \A j \in at : i <= j]

\* df[df['site'] == city]
RowsOf(df, city) == SelectSeq(df, LAMBDA r : r.site = city)

\* a text returned in place of a pane's content
Text(t) == [kind |-> "text", text |-> t]

\* create_map(city): zoom in tenths, centre in tenths of a degree;
\* highlight is the extra marker trace of the selected city
create_map(city, latest) ==
    LET found == Truthy(city) /\ city \in Sites(latest)
        city_data == FirstRow(latest, city)
    IN [kind |-> "map",
        markers |-> Sites(latest),
        center |-> IF found THEN <<city_data.latitude, city_data.longitude>>
                   ELSE <<545, 0 - 30>>,
        zoom |-> IF found THEN 110 ELSE 55,
        highlight |-> IF found THEN <<city, city_data.pm25>> ELSE <<>>]

\* create_aqi_card with the status taken from the reading instead of the index
create_aqi_card_from_reading(city, latest) ==
    IF city \notin Sites(latest) THEN Text("City data not available")
    ELSE LET city_data == FirstRow(latest, city)
             a == calc_aqi(city_data.pm25)
             st == get_aqi_status(city_data.pm25)
         IN [kind |-> "aqi_card", city |-> city, aqi |-> a,
             status |-> st[1], color |-> st[3],
             last_updated |-> city_data.datetime,
             pm10 |-> city_data.pm10, pm25 |-> city_data.pm25]

\* create_aqi_card(city)
create_aqi_card(city, latest) ==
    IF city \notin Sites(latest) THEN Text("City data not available")
    ELSE LET city_data == FirstRow(latest, city)
             a == calc_aqi(city_data.pm25)
             st == get_aqi_status(a)
         IN [kind |-> "aqi_card", city |-> city, aqi |-> a,
             status |-> st[1], color |-> st[3],
             last_updated |-> city_data.datetime,
             pm10 |-> city_data.pm10, pm25 |-> city_data.pm25]

\* create_pollutant_cards(city)
create_pollutant_cards(city, latest) ==
    IF city \notin Sites(latest) THEN Text("City data not available")
    ELSE LET city_data == FirstRow(latest, city)
         IN [kind |-> "pollutant_cards", city |-> city,
             pm25 |-> city_data.pm25, pm10 |-> city_data.pm10,
             no2 |-> city_data.no2, o3 |-> city_data.o3]

\* sort_values('datetime') of one city's rows.  The histories of the model
\* have distinct datetimes within a site, for which every sort gives this
\* order.
RECURSIVE sort_by_datetime(_)
sort_by_datetime(rows) ==
    IF rows = <<>> THEN <<>>
    ELSE LET last == rows[Len(rows)]
             front == sort_by_datetime(SubSeq(rows, 1, Len(rows) - 1))
         IN SelectSeq(front, LAMBDA r : r.datetime <= last.datetime)
            \o <<last>>
            \o SelectSeq(front, LAMBDA r : r.datetime > last.datetime)

\* df.tail(n)
tail(df, n) == IF Len(df) <= n THEN df ELSE SubSeq(df, Len(df) - n + 1, Len(df))

\* recent_data falling back on the first 20 rows instead of the last 20
recent_data_head20(city_data) ==
    LET sorted == sort_by_datetime(city_data)
        latest_time == sorted[Len(sorted)].datetime
        cutoff_time == latest_time - 24
        recent == SelectSeq(sorted, LAMBDA r : r.datetime >= cutoff_time)
    IN IF Len(recent) < 5
       THEN (IF Len(sorted) <= 20 THEN sorted ELSE SubSeq(sorted, 1, 20))
       ELSE recent

\* recent_data with the threshold off by one: a window of 5 is not enough
recent_data_over5(city_data) ==
    LET sorted == sort_by_datetime(city_data)
        latest_time == sorted[Len(sorted)].datetime
        cutoff_time == latest_time - 24
        recent == SelectSeq(sorted, LAMBDA r : r.datetime >= cutoff_time)
    IN IF Len(recent) <= 5 THEN tail(sorted, 20) ELSE recent

\* the rows create_historical_aqi_graph plots for a city that has rows
recent_data(city_data) ==
    LET sorted == sort_by_datetime(city_data)
        latest_time == sorted[Len(sorted)].datetime
        cutoff_time == latest_time - 24
        recent == SelectSeq(sorted, LAMBDA r : r.datetime >= cutoff_time)
    IN IF Len(recent) < 5 THEN tail(sorted, 20) ELSE recent

\* go.Figure() with nothing in it
EmptyFigure == [kind |-> "empty_figure"]

\* create_trend_chart(city, time_range), called at the hour now
create_trend_chart(city, tr, now, historical) ==
    IF city \notin Sites(historical) THEN EmptyFigure
    ELSE LET cutoff == IF tr = "Last 24 Hours" THEN now - 24
                       ELSE IF tr = "Last 7 Days" THEN now - 7 * 24
                       ELSE now - 30 * 24
             city_data == sort_by_datetime(
                 SelectSeq(RowsOf(historical, city), LAMBDA r : r.datetime >= cutoff))
         IN IF city_data = <<>> THEN EmptyFigure
            ELSE [kind |-> "trend", city |-> city,
                  points |-> [i \in 1..Len(city_data) |->
                                <<city_data[i].datetime, calc_aqi(city_data[i].pm25),
                                  city_data[i].pm25>>]]

\* create_pollutants_chart(city)
create_pollutants_chart(city, latest) ==
    IF city \notin Sites(latest) THEN EmptyFigure
    ELSE LET city_data == FirstRow(latest, city)
         IN [kind |-> "pollutants", city |-> city,
             values |-> <<city_data.pm25, city_data.pm10, city_data.no2, city_data.o3>>]

\* create_historical_aqi_graph without the test for an empty city
create_historical_aqi_graph_unguarded(city, historical) ==
    LET city_data == RowsOf(historical, city)
    IN IF city_data = <<>>
       THEN [kind |-> "figure",
             annotation |-> "No historical data available for", city |-> city]
       ELSE LET recent == recent_data(city_data)
            IN [kind |-> "bars",
                bars |-> [i \in 1..Len(recent) |->
                            <<recent[i].datetime, calc_aqi(recent[i].pm25)>>]]

\* create_historical_aqi_graph(city); historical is load_historical_data()
create_historical_aqi_graph(city, historical) ==
    IF ~Truthy(city) THEN [kind |-> "none"]
    ELSE LET city_data == RowsOf(historical, city)
         IN IF city_data = <<>>
            THEN [kind |-> "figure",
                  annotation |-> "No historical data available for", city |-> city]
            ELSE LET recent == recent_data(city_data)
                 IN IF recent = <<>>
                    THEN [kind |-> "figure",
                          annotation |-> "No data available for", city |-> city]
                    ELSE [kind |-> "bars",
                          bars |-> [i \in 1..Len(recent) |->
                                      <<recent[i].datetime, calc_aqi(recent[i].pm25)>>]]

\* create_graph_header(city)
create_graph_header(city) == [kind |-> "graph_header", city |-> city]

\* ---- the dashboard ----
\* the readings of a site: n rows, one hour apart, ending at hour 30 + n
History(site, n, base) == [i \in 1..n |-> Row(site, 30 + i, base + 37 * (i - 1))]

DashReadings == {80, 1000, 2600}

\* a site is absent or has one of the histories; the table stores the
\* sites' rows one site after the other
DashHistories(site) ==
    {<<>>} \cup {History(site, n, base) : n \in 1..MaxHist, base \in DashReadings}

DashTables ==
    {b \o l \o y : b \in DashHistories("Bath"), l \in DashHistories("Leeds"),
                   y \in DashHistories("York")}

\* cities = sorted(latest_data["site"].unique())
cities == sorted_sites(latest_data)

\* cities[0] if cities else None
first_city == IF cities # <<>> THEN cities[1] ELSE None

\* the module after import: data loaded, widgets and panes constructed
InitDash ==
    /\ pm25 = 0
    /\ aqi = 0
    /\ branch = 0
    /\ status = <<>>
    /\ pc = "done"
    /\ frames = <<>>
    /\ module_state = 0
    /\ call = <<>>
    /\ table \in DashTables
    /\ latest_data \in load_latest_data(table)
    /\ loaded = TRUE
    /\ NoDeploy
    /\ city_selector = first_city
    /\ time_range = "Last 24 Hours"
    /\ map_pane = create_map(first_city, latest_data)
    /\ aqi_card = create_aqi_card(first_city, latest_data)
    /\ pollutant_cards = create_pollutant_cards(first_city, latest_data)
    /\ aqi_graph = create_historical_aqi_graph(first_city, table)
    /\ graph_header = create_graph_header(first_city)
    /\ pending = <<>>

\* the functions watching city_selector.param.value, in registration order
city_watchers_short ==
    <<"update_map", "update_aqi_card", "update_pollutant_cards", "update_aqi_graph">>

city_watchers ==
    <<"update_map", "update_aqi_card", "update_pollutant_cards", "update_aqi_graph",
      "update_graph_header">>

\* the functions watching time_range.param.value: there is none
time_range_watchers_graph == <<"update_aqi_graph">>

time_range_watchers == <<>>

time_range_options == {"Last 24 Hours", "Last 7 Days", "Last 30 Days"}

\* the user picks another city.  A change event is handled to the end (all
\* its watchers run, one after the other) before the next event is taken.
ChangeCity(c) ==
    /\ pending = <<>>
    /\ c \in Sites(latest_data)
    /\ c # city_selector
    /\ city_selector' = c
    /\ pending' = [i \in 1..Len(city_watchers) |-> <<city_watchers[i], c>>]
    /\ UNCHANGED <<time_range, map_pane, aqi_card, pollutant_cards, aqi_graph,
                   graph_header>>
    /\ UNCHANGED <<engineVars, callVars, dataVars, deployVars>>

\* the user picks another time range
ChangeTimeRange(t) ==
    /\ pending = <<>>
    /\ t \in time_range_options
    /\ t # time_range
    /\ time_range' = t
    /\ pending' = [i \in 1..Len(time_range_watchers) |->
                      <<time_range_watchers[i], city_selector>>]
    /\ UNCHANGED <<city_selector, map_pane, aqi_card, pollutant_cards, aqi_graph,
                   graph_header>>
    /\ UNCHANGED <<engineVars, callVars, dataVars, deployVars>>

\* the next watcher call of the event is `name`; its argument
Due(name) == pending # <<>> /\ pending[1][1] = name
DueCity == pending[1][2]

update_map ==
    /\ Due("update_map")
    /\ map_pane' = create_map(DueCity, latest_data)
    /\ pending' = Tail(pending)
    /\ UNCHANGED <<city_selector, time_range, aqi_card, pollutant_cards,
                   aqi_graph, graph_header>>
    /\ UNCHANGED <<engineVars, callVars, dataVars, deployVars>>

update_aqi_card ==
    /\ Due("update_aqi_card")
    /\ aqi_card' = create_aqi_card(DueCity, latest_data)
    /\ pending' = Tail(pending)
    /\ UNCHANGED <<city_selector, time_range, map_pane, pollutant_cards,
                   aqi_graph, graph_header>>
    /\ UNCHANGED <<engineVars, callVars, dataVars, deployVars>>

update_pollutant_cards ==
    /\ Due("update_pollutant_cards")
    /\ pollutant_cards' = create_pollutant_cards(DueCity, latest_data)
    /\ pending' = Tail(pending)
    /\ UNCHANGED <<city_selector, time_range, map_pane, aqi_card,
                   aqi_graph, graph_header>>
    /\ UNCHANGED <<engineVars, callVars, dataVars, deployVars>>

update_aqi_graph ==
    /\ Due("update_aqi_graph")
    /\ aqi_graph' = create_historical_aqi_graph(DueCity, table)
    /\ pending' = Tail(pending)
    /\ UNCHANGED <<city_selector, time_range, map_pane, aqi_card,
                   pollutant_cards, graph_header>>
    /\ UNCHANGED <<engineVars, callVars, dataVars, deployVars>>

update_graph_header ==
    /\ Due("update_graph_header")
    /\ graph_header' = create_graph_header(DueCity)
    /\ pending' = Tail(pending)
    /\ UNCHANGED <<city_selector, time_range, map_pane, aqi_card,
                   pollutant_cards, aqi_graph>>
    /\ UNCHANGED <<engineVars, callVars, dataVars, deployVars>>

NextDash ==
    \/ \E c \in Sites(latest_data) : ChangeCity(c)
    \/ \E t \in time_range_options : ChangeTimeRange(t)
    \/ update_map
    \/ update_aqi_card
    \/ update_pollutant_cards
    \/ update_aqi_graph
    \/ update_graph_header

SpecDash == InitDash /\ [][NextDash]_vars

\* ---- one builder called with any city ----
BuilderNames ==
    {"create_map", "create_aqi_card", "create_pollutant_cards",
     "create_historical_aqi_graph", "create_trend_chart", "create_pollutants_chart"}

\* the cities of the model, the empty values, and a city no table holds
BuilderCities == {"Bath", "Leeds", "York", None, "", "Hull"}

\* the hours at which create_trend_chart reads the clock
BuilderClock == {40, 60, 300}

BuilderCalls ==
    {[fn |-> f, city |-> c, time_range |-> "Last 24 Hours", now |-> 0,
      done |-> FALSE, result |-> <<>>] :
        f \in BuilderNames \ {"create_trend_chart"}, c \in BuilderCities}
    \cup
    {[fn |-> "create_trend_chart", city |-> c, time_range |-> t, now |-> h,
      done |-> FALSE, result |-> <<>>] :
        c \in BuilderCities, t \in time_range_options, h \in BuilderClock}

InitBuilders ==
    /\ pm25 = 0
    /\ aqi = 0
    /\ branch = 0
    /\ status = <<>>
    /\ pc = "done"
    /\ frames = <<>>
    /\ module_state = 0
    /\ call \in BuilderCalls
    /\ table \in DashTables
    /\ latest_data \in load_latest_data(table)
    /\ loaded = TRUE
    /\ NoDashboard
    /\ NoDeploy

builder_result(c) ==
    IF c.fn = "create_map" THEN create_map(c.city, latest_data)
    ELSE IF c.fn = "create_aqi_card" THEN create_aqi_card(c.city, latest_data)
    ELSE IF c.fn = "create_pollutant_cards" THEN create_pollutant_cards(c.city, latest_data)
    ELSE IF c.fn = "create_historical_aqi_graph"
        THEN create_historical_aqi_graph(c.city, table)
    ELSE IF c.fn = "create_trend_chart"
        THEN create_trend_chart(c.city, c.time_range, c.now, table)
    ELSE create_pollutants_chart(c.city, latest_data)

CallBuilder ==
    /\ ~call.done
    /\ call' = [call EXCEPT !.done = TRUE, !.result = builder_result(call)]
    /\ UNCHANGED <<frames, module_state>>
    /\ UNCHANGED <<engineVars, dataVars, dashVars, deployVars>>

NextBuilders == CallBuilder

SpecBuilders == InitBuilders /\ [][NextBuilders]_vars

\* ---- the historical graph of a city with a long history ----
\* hours between two readings of the older part of a history
GraphGaps == {1, 6, 7, 24, 25}

\* n readings of Bath in time order: all but the newest r are gap hours
\* apart, the newest r follow one hour apart
GraphHistory(n, r, gap) ==
    [i \in 1..n |->
        Row("Bath",
            IF i <= n - r THEN gap * i ELSE gap * (n - r) + (i - (n - r)),
            (i * 137) % 5100)]

Reverse(s) == [i \in 1..Len(s) |-> s[Len(s) + 1 - i]]

\* the table holds two readings of Leeds and the history of Bath, stored
\* oldest first or newest first
GraphTables ==
    LET shapes == {x \in (1..MaxReadings) \X (0..8) : x[2] <= x[1]}
        hs == {GraphHistory(x[1], x[2], gap) : x \in shapes, gap \in GraphGaps}
    IN UNION {{History("Leeds", 2, 2600) \o h, Reverse(h) \o History("Leeds", 2, 2600)} :
                h \in hs}

InitGraph ==
    /\ pm25 = 0
    /\ aqi = 0
    /\ branch = 0
    /\ status = <<>>
    /\ pc = "done"
    /\ frames = <<>>
    /\ module_state = 0
    /\ call = [fn |-> "create_historical_aqi_graph", city |-> "Bath",
               time_range |-> "Last 24 Hours", now |-> 0,
               done |-> FALSE, result |-> <<>>]
    /\ table \in GraphTables
    /\ latest_data = <<>>
    /\ loaded = FALSE
    /\ NoDashboard
    /\ NoDeploy

SpecGraph == InitGraph /\ [][NextBuilders]_vars

\* ---- calc_aqi of urban_air_quality_dashboard.py ----
\* the urban calc_aqi with its fourth arm repaired, the panel one left as is
urban_calc_aqi_repaired(p) ==
    IF le(p, 120) THEN int_trunc(p * 50, 120)
    ELSE IF le(p, 354) THEN int_trunc(50 * (354 - 120) + (p - 120) * 50, 354 - 120)
    ELSE IF le(p, 554) THEN int_trunc(100 * (554 - 354) + (p - 354) * 50, 554 - 354)
    ELSE IF le(p, 1504) THEN int_trunc(150 * (1504 - 554) + (p - 554) * 50, 1504 - 554)
    ELSE IF le(p, 2504) THEN int_trunc(200 * (2504 - 1504) + (p - 1504) * 100, 2504 - 1504)
    ELSE IF le(p, 3504) THEN int_trunc(300 * (3504 - 2504) + (p - 2504) * 100, 3504 - 2504)
    ELSE IF le(p, 5004) THEN int_trunc(400 * (5004 - 3504) + (p - 3504) * 100, 5004 - 3504)
    ELSE 500

urban_calc_aqi(p) ==
    IF le(p, 120) THEN int_trunc(p * 50, 120)
    ELSE IF le(p, 354) THEN int_trunc(50 * (354 - 120) + (p - 120) * 50, 354 - 120)
    ELSE IF le(p, 554) THEN int_trunc(100 * (554 - 354) + (p - 354) * 50, 554 - 354)
    ELSE IF le(p, 1504) THEN int_trunc(150 * (1504 - 554) + (p - 554) * 100, 1504 - 554)
    ELSE IF le(p, 2504) THEN int_trunc(200 * (2504 - 1504) + (p - 1504) * 100, 2504 - 1504)
    ELSE IF le(p, 3504) THEN int_trunc(300 * (3504 - 2504) + (p - 2504) * 100, 3504 - 2504)
    ELSE IF le(p, 5004) THEN int_trunc(400 * (5004 - 3504) + (p - 3504) * 100, 5004 - 3504)
    ELSE 500

\* one call of calc_aqi, of either dashboard, on any reading
InitEither ==
    /\ pm25 = 0
    /\ aqi = 0
    /\ branch = 0
    /\ status = <<>>
    /\ pc = "done"
    /\ frames = <<>>
    /\ module_state = 0
    /\ call \in {[fn |-> "calc_aqi", file |-> f, pm25 |-> p, done |-> FALSE, result |-> 0] :
                    f \in {"panel", "urban"}, p \in Conc \cup {NaN}}
    /\ table = <<>>
    /\ latest_data = <<>>
    /\ loaded = FALSE
    /\ NoDashboard
    /\ NoDeploy

\* aqi = calc_aqi(city_data["pm25"])
CallCalcAqi ==
    /\ ~call.done
    /\ call' = [call EXCEPT !.done = TRUE,
                            !.result = IF call.file = "urban"
                                       THEN urban_calc_aqi(call.pm25)
                                       ELSE calc_aqi(call.pm25)]
    /\ UNCHANGED <<frames, module_state>>
    /\ UNCHANGED <<engineVars, dataVars, dashVars, deployVars>>

NextEither == CallCalcAqi

SpecEither == InitEither /\ [][NextEither]_vars

\* ---- push_to_existing_repo.py and setup_new_deployment.py ----
\* Text typed at a prompt is a sequence of characters; " " stands for any
\* whitespace character and "h" for any other.
MaxTyped == 2

Chars == {" ", "h"}

Typed == UNION {[1..n -> Chars] : n \in 0..MaxTyped}

\* how subprocess.run(["git", ...]) ends: git exits with status 0 ("ok") or
\* with another status ("nonzero"), or there is no git to run.  The scripts
\* are followed from main to their end: runs the user breaks off with Ctrl+C
\* are not part of the model.
run_outcomes(installed) ==
    IF installed THEN {"ok", "nonzero"} ELSE {"FileNotFoundError"}

\* subprocess.run(cmd, check=True): a status other than 0 is raised as
\* CalledProcessError
run_check(o) == IF o = "nonzero" THEN "CalledProcessError" ELSE o

required_files ==
    <<"panel_air_quality_dashboard.py", "air_quality.sqlite", "requirements.txt",
      "render.yaml">>

\* check_files without render.yaml in its list
check_files_three(exists) ==
    SelectSeq(SubSeq(required_files, 1, 3), LAMBDA file : file \notin exists)

\* missing_files, in the order of required_files
check_files(exists) == SelectSeq(required_files, LAMBDA file : file \notin exists)

RECURSIVE lstrip(_)
lstrip(s) ==
    IF s = <<>> THEN s
    ELSE IF Head(s) = " " THEN lstrip(Tail(s))
    ELSE s

RECURSIVE rstrip(_)
rstrip(s) ==
    IF s = <<>> THEN s
    ELSE IF s[Len(s)] = " " THEN rstrip(SubSeq(s, 1, Len(s) - 1))
    ELSE s

\* str.strip()
strip(s) == rstrip(lstrip(s))

\* str.lower(), on the letters an answer is made of
lower(s) == [i \in 1..Len(s) |-> IF s[i] = "Y" THEN "y" ELSE s[i]]

\* the git commands of setup_repository, in program order
setup_repository == <<"init", "remote add", "add", "commit", "branch -M main", "push">>

\* the git commands of setup_git_repo, in program order
setup_git_repo == <<"init", "add", "commit", "branch -M main", "remote add", "push">>

git_steps(script) ==
    IF script = "push_to_existing_repo" THEN setup_repository ELSE setup_git_repo

GitScripts == {"push_to_existing_repo", "setup_new_deployment"}

InitDeploy ==
    /\ pm25 = 0
    /\ aqi = 0
    /\ branch = 0
    /\ status = <<>>
    /\ pc = "done"
    /\ frames = <<>>
    /\ module_state = 0
    /\ call = <<>>
    /\ table = <<>>
    /\ latest_data = <<>>
    /\ loaded = FALSE
    /\ NoDashboard
    /\ env \in [files : SUBSET {required_files[i] : i \in 1..Len(required_files)},
                git : BOOLEAN]
    /\ commands = <<>>
    /\ proc \in [script : GitScripts, pc : {"check_git"}, typed : {<<>>},
                 repo_url : {<<>>},
                 step : {1}, ret : {"None"}, raised : {"None"}, code : {0},
                 opened : {FALSE}]

\* sys.exit(1)
sys_exit_1(p) == [p EXCEPT !.pc = "exited", !.code = 1]

\* main: if not check_git(): ... sys.exit(1)
CheckGit ==
    /\ proc # <<>>
    /\ proc.pc = "check_git"
    /\ \E o \in run_outcomes(env.git) :
        /\ commands' = Append(commands, [cmd |-> "--version", outcome |-> o])
        /\ proc' = IF run_check(o) \in {"CalledProcessError", "FileNotFoundError"}
                   THEN sys_exit_1(proc)
                   ELSE [proc EXCEPT !.pc = "check_files"]
    /\ UNCHANGED env
    /\ UNCHANGED <<engineVars, callVars, dataVars, dashVars>>

\* main: missing_files = check_files(); if missing_files: ... sys.exit(1)
CheckFiles ==
    /\ proc # <<>>
    /\ proc.pc = "check_files"
    /\ proc' = IF check_files(env.files) # <<>>
               THEN sys_exit_1(proc)
               ELSE IF proc.script = "setup_new_deployment"
               THEN [proc EXCEPT !.pc = "repo_url"]
               ELSE [proc EXCEPT !.pc = "setup", !.repo_url = <<"h">>]
    /\ UNCHANGED <<env, commands>>
    /\ UNCHANGED <<engineVars, callVars, dataVars, dashVars>>

\* main of setup_new_deployment: repo_url = create_new_repo_instructions();
\* if not repo_url: ... sys.exit(1)
CreateNewRepoInstructions ==
    /\ proc # <<>>
    /\ proc.pc = "repo_url"
    /\ \E typed \in Typed :
        LET repo_url == strip(typed)
        IN proc' = IF repo_url = <<>>
                   THEN sys_exit_1([proc EXCEPT !.typed = typed, !.repo_url = repo_url])
                   ELSE [proc EXCEPT !.pc = "setup", !.typed = typed,
                                     !.repo_url = repo_url]
    /\ UNCHANGED <<env, commands>>
    /\ UNCHANGED <<engineVars, callVars, dataVars, dashVars>>

\* a git step that goes on to the next one whatever the exit status
git_step_unchecked(p, o) ==
    IF o \in {"ok", "nonzero"}
    THEN IF p.step < Len(git_steps(p.script))
         THEN [p EXCEPT !.step = p.step + 1]
         ELSE [p EXCEPT !.pc = "after_setup", !.ret = "True"]
    ELSE [p EXCEPT !.pc = "raised", !.raised = run_check(o)]

\* one subprocess.run([...], check=True) of setup_repository / setup_git_repo,
\* inside try ... except subprocess.CalledProcessError: return False
git_step(p, o) ==
    IF run_check(o) = "ok"
    THEN IF p.step < Len(git_steps(p.script))
         THEN [p EXCEPT !.step = p.step + 1]
         ELSE [p EXCEPT !.pc = "after_setup", !.ret = "True"]
    ELSE IF run_check(o) = "CalledProcessError"
    THEN [p EXCEPT !.pc = "after_setup", !.ret = "False"]
    ELSE [p EXCEPT !.pc = "raised", !.raised = run_check(o)]

GitStep ==
    /\ proc # <<>>
    /\ proc.pc = "setup"
    /\ \E o \in run_outcomes(env.git) :
        /\ commands' = Append(commands,
                              [cmd |-> git_steps(proc.script)[proc.step], outcome |-> o])
        /\ proc' = git_step(proc, o)
    /\ UNCHANGED env
    /\ UNCHANGED <<engineVars, callVars, dataVars, dashVars>>

\* main, after the setup returned: on True the instructions and the question
\* whether to open the browser, on False the failure message
AfterSetup ==
    /\ proc # <<>>
    /\ proc.pc = "after_setup"
    /\ \E answer \in {<<"y">>, <<"Y">>, <<"n">>, <<>>} :
        proc' = [proc EXCEPT !.pc = "done",
                             !.opened = proc.ret = "True" /\ lower(answer) = <<"y">>]
    /\ UNCHANGED <<env, commands>>
    /\ UNCHANGED <<engineVars, callVars, dataVars, dashVars>>

NextDeploy == CheckGit \/ CheckFiles \/ CreateNewRepoInstructions \/ GitStep \/ AfterSetup

SpecDeploy == InitDeploy /\ [][NextDeploy]_vars

\* ---- deploy_local.py ----
\* how subprocess.run(["panel", "serve", ...]) ends: the server exits with
\* status 0 ("ok") or another status ("nonzero"), the user stops it with
\* Ctrl+C, it cannot be started for another reason, or there is no panel
\* command
serve_outcomes(installed) ==
    IF installed THEN {"ok", "nonzero", "KeyboardInterrupt", "OSError"}
    ELSE {"FileNotFoundError"}

\* the calls of get_local_ip that can raise, in program order
socket_calls == <<"socket", "connect", "getsockname", "close">>

\* addresses the machine can have on its network
Addresses == {"192.168.0.7", "10.0.0.5"}

\* get_local_ip: the address of the socket, or "127.0.0.1" when a call raised
get_local_ip(failed, address) ==
    IF failed = "none" THEN address ELSE "127.0.0.1"

\* the socket after get_local_ip: close() is the last call of the try block
socket_after(failed) ==
    IF failed = "none" THEN "closed"
    ELSE IF failed = "socket" THEN "none"
    ELSE "open"

\* main's try block without its last clause, except Exception
start_server_two_clauses(p, o) ==
    IF o = "KeyboardInterrupt"
    THEN [p EXCEPT !.pc = "done", !.message = "Server stopped by user"]
    ELSE IF o = "FileNotFoundError"
    THEN [p EXCEPT !.pc = "done", !.message = "'panel' command not found"]
    ELSE IF o \in {"ok", "nonzero"}
    THEN [p EXCEPT !.pc = "done"]
    ELSE [p EXCEPT !.pc = "raised", !.raised = o]

\* main's try block: subprocess.run(cmd) without check, and the three except
\* clauses in their order
start_server(p, o) ==
    IF o = "KeyboardInterrupt"
    THEN [p EXCEPT !.pc = "done", !.message = "Server stopped by user"]
    ELSE IF o = "FileNotFoundError"
    THEN [p EXCEPT !.pc = "done", !.message = "'panel' command not found"]
    ELSE IF o \in {"ok", "nonzero"}
    THEN [p EXCEPT !.pc = "done"]
    ELSE [p EXCEPT !.pc = "done", !.message = "Error starting server"]

InitLocal ==
    /\ pm25 = 0
    /\ aqi = 0
    /\ branch = 0
    /\ status = <<>>
    /\ pc = "done"
    /\ frames = <<>>
    /\ module_state = 0
    /\ call = <<>>
    /\ table = <<>>
    /\ latest_data = <<>>
    /\ loaded = FALSE
    /\ NoDashboard
    /\ env \in [files : SUBSET {required_files[i] : i \in 1..Len(required_files)},
                panel : BOOLEAN]
    /\ commands = <<>>
    /\ proc = [script |-> "deploy_local", pc |-> "check_dashboard", failed |-> "none",
               socket |-> "none", local_ip |-> "None", message |-> "None",
               raised |-> "None", code |-> 0]

\* main: if not os.path.exists("panel_air_quality_dashboard.py"): sys.exit(1)
CheckDashboardFile ==
    /\ proc # <<>>
    /\ proc.pc = "check_dashboard"
    /\ proc' = IF "panel_air_quality_dashboard.py" \notin env.files
               THEN sys_exit_1([proc EXCEPT !.message =
                                   "panel_air_quality_dashboard.py not found"])
               ELSE [proc EXCEPT !.pc = "check_database"]
    /\ UNCHANGED <<env, commands>>
    /\ UNCHANGED <<engineVars, callVars, dataVars, dashVars>>

\* main: if not os.path.exists("air_quality.sqlite"): sys.exit(1)
CheckDatabaseFile ==
    /\ proc # <<>>
    /\ proc.pc = "check_database"
    /\ proc' = IF "air_quality.sqlite" \notin env.files
               THEN sys_exit_1([proc EXCEPT !.message = "air_quality.sqlite not found"])
               ELSE [proc EXCEPT !.pc = "get_local_ip"]
    /\ UNCHANGED <<env, commands>>
    /\ UNCHANGED <<engineVars, callVars, dataVars, dashVars>>

\* main: local_ip = get_local_ip()
GetLocalIp ==
    /\ proc # <<>>
    /\ proc.pc = "get_local_ip"
    /\ \E failed \in {"none"} \cup {socket_calls[i] : i \in 1..Len(socket_calls)},
          address \in Addresses :
        proc' = [proc EXCEPT !.pc = "serve", !.failed = failed,
                             !.socket = socket_after(failed),
                             !.local_ip = get_local_ip(failed, address)]
    /\ UNCHANGED <<env, commands>>
    /\ UNCHANGED <<engineVars, callVars, dataVars, dashVars>>

\* main: the try block that starts the server
StartServer ==
    /\ proc # <<>>
    /\ proc.pc = "serve"
    /\ \E o \in serve_outcomes(env.panel) :
        /\ commands' = Append(commands, [cmd |-> "panel serve", outcome |-> o])
        /\ proc' = start_server(proc, o)
    /\ UNCHANGED env
    /\ UNCHANGED <<engineVars, callVars, dataVars, dashVars>>

NextLocal == CheckDashboardFile \/ CheckDatabaseFile \/ GetLocalIp \/ StartServer

SpecLocal == InitLocal /\ [][NextLocal]_vars

\* ======================= properties =======================

\* label of a classification tuple
Label(st) == st[1]

\* the breakpoint table of the specification, in tenths:
\* <<lo_in, hi_in, lo_out, hi_out>>, lo_in exclusive except in the first row
Table ==
    << <<0, 120, 0, 50>>,
       <<120, 354, 50, 100>>,
       <<354, 554, 100, 150>>,
       <<554, 1504, 150, 200>>,
       <<1504, 2504, 200, 300>>,
       <<2504, 3504, 300, 400>>,
       <<3504, 5004, 400, 500>> >>

InRow(k, p) ==
    /\ IF k = 1 THEN p >= Table[k][1] ELSE p > Table[k][1]
    /\ p <= Table[k][2]

\* floor(lo_out + (p - lo_in)/(hi_in - lo_in)*(hi_out - lo_out)) for the row of p
TableRef(p) ==
    LET k == CHOOSE r \in 1..7 : InRow(r, p)
        row == Table[k]
        w == row[2] - row[1]
    IN (row[3] * w + (p - row[1]) * (row[4] - row[3])) \div w

\* C1: for every concentration in [0, 500.4] the index is the table's
\* interpolation of the row holding the concentration, truncated.
C1_TableReference ==
    (pc # "input" /\ pm25 >= 0 /\ pm25 <= 5004) => aqi = TableRef(pm25)

\* C2: get_aqi_status gives Good on [0,50], Moderate on [51,100], Unhealthy
\* for Sensitive Groups on [101,150], Unhealthy on [151,200], Very Unhealthy
\* on [201,300] and Hazardous above 300.
C2_StatusBands ==
    pc = "done" =>
        /\ (0 <= aqi /\ aqi <= 50) => Label(status) = "Good"
        /\ (51 <= aqi /\ aqi <= 100) => Label(status) = "Moderate"
        /\ (101 <= aqi /\ aqi <= 150) => Label(status) = "Unhealthy for Sensitive Groups"
        /\ (151 <= aqi /\ aqi <= 200) => Label(status) = "Unhealthy"
        /\ (201 <= aqi /\ aqi <= 300) => Label(status) = "Very Unhealthy"
        /\ aqi > 300 => Label(status) = "Hazardous"

C2_Witness ==
    /\ pc = "done"
    /\ aqi = 150
    /\ Label(status) = "Unhealthy for Sensitive Groups"

\* C3: calc_aqi is monotone non-decreasing on the non-negative domain: no
\* smaller non-negative concentration has a larger index than this one.
C3_Monotone ==
    (pc # "input" /\ pm25 >= 0) => \A y \in 0..pm25 : calc_aqi(y) <= aqi

\* the branch conditions as the specification's table states them
InSegment(k, p) ==
    IF k = 8 THEN p > 5004 ELSE InRow(k, p)

\* C4: for every non-negative concentration calc_aqi returns an integer in
\* [0, 500], and exactly one of the eight branches covers the concentration:
\* the one that was taken.
C4_RangeAndBranches ==
    (pc # "input" /\ pm25 >= 0) =>
        /\ aqi \in 0..500
        /\ Cardinality({k \in 1..8 : InSegment(k, pm25)}) = 1
        /\ branch \in 1..8
        /\ InSegment(branch, pm25)

C4_Witness ==
    /\ pc = "done"
    /\ pm25 = 1504
    /\ branch = 4
    /\ aqi = 250

\* C5: the index of a concentration lies in the output sub-range of its
\* segment, lower bound excluded (included only for the first segment).
C5_SegmentRange ==
    (pc # "input" /\ pm25 >= 0 /\ pm25 <= 5004) =>
        \A k \in 1..7 : InRow(k, pm25) =>
            /\ IF k = 1 THEN aqi >= Table[k][3] ELSE aqi > Table[k][3]
            /\ aqi <= Table[k][4]

\* C6: the label shown for a concentration is Good exactly on [0,12],
\* Moderate exactly on (12,35.4], Unhealthy for Sensitive Groups exactly on
\* (35.4,55.4], Unhealthy exactly on (55.4,150.4], Very Unhealthy exactly on
\* (150.4,250.4] and Hazardous exactly above 250.4.
C6_LabelMatchesSegment ==
    (pc = "done" /\ pm25 >= 0) =>
        /\ Label(status) = "Good" <=> pm25 <= 120
        /\ Label(status) = "Moderate" <=> (pm25 > 120 /\ pm25 <= 354)
        /\ Label(status) = "Unhealthy for Sensitive Groups" <=> (pm25 > 354 /\ pm25 <= 554)
        /\ Label(status) = "Unhealthy" <=> (pm25 > 554 /\ pm25 <= 1504)
        /\ Label(status) = "Very Unhealthy" <=> (pm25 > 1504 /\ pm25 <= 2504)
        /\ Label(status) = "Hazardous" <=> pm25 > 2504

\* C7: at each segment's inclusive upper bound the index is the segment's
\* upper output bound: 12 -> 50, 35.4 -> 100, 55.4 -> 150, 150.4 -> 200,
\* 250.4 -> 300, 350.4 -> 400, 500.4 -> 500.
C7_UpperBounds ==
    pc # "input" =>
        /\ pm25 = 120 => aqi = 50
        /\ pm25 = 354 => aqi = 100
        /\ pm25 = 554 => aqi = 150
        /\ pm25 = 1504 => aqi = 200
        /\ pm25 = 2504 => aqi = 300
        /\ pm25 = 3504 => aqi = 400
        /\ pm25 = 5004 => aqi = 500

C9_Saturation ==
    (pc # "input" /\ pm25 > 5004) => aqi = 500

C9_Witness ==
    /\ pc = "calc"
    /\ pm25 = MaxConc
    /\ branch = 8
    /\ aqi = 500

C11_NegativeIndex ==
    (pc # "input" /\ pm25 < 0) => (branch = 1 /\ aqi < 0)

\* C11 (amended): a negative concentration is neither rejected nor clamped:
\* the first arm computes x/12*50 truncated toward zero, which is never
\* positive and is negative exactly when x/12*50 <= -1 (x <= -0.24).
C11_NegativeTruncated ==
    (pc # "input" /\ pm25 < 0) =>
        /\ branch = 1
        /\ aqi <= 0
        /\ aqi * 120 >= pm25 * 50
        /\ (aqi - 1) * 120 < pm25 * 50
        /\ aqi < 0 <=> pm25 * 50 <= 0 - 120

C11_Witness ==
    /\ pc = "done"
    /\ pm25 = 0 - 30
    /\ branch = 1
    /\ aqi = 0 - 12

\* the six bands of the specification: <<lowest index, highest index, label>>;
\* the first band has no lowest index and the last no highest
Bands ==
    << <<0, 50, "Good">>,
       <<51, 100, "Moderate">>,
       <<101, 150, "Unhealthy for Sensitive Groups">>,
       <<151, 200, "Unhealthy">>,
       <<201, 300, "Very Unhealthy">>,
       <<301, 500, "Hazardous">> >>

InBand(k, a) ==
    /\ k = 1 \/ a >= Bands[k][1]
    /\ k = 6 \/ a <= Bands[k][2]

\* C12: get_aqi_status is total over the integers and its six bands
\* partition them: every index, also one outside [0, 500], lies in exactly
\* one band and gets that band's label; an index below 0 is Good and an
\* index above 500 is Hazardous.
C12_TotalPartition ==
    pc = "done" =>
        /\ Len(status) = 4
        /\ Cardinality({k \in 1..6 : InBand(k, aqi)}) = 1
        /\ \A k \in 1..6 : InBand(k, aqi) => Label(status) = Bands[k][3]
        /\ aqi < 0 => Label(status) = "Good"
        /\ aqi > 500 => Label(status) = "Hazardous"

C12_Witness ==
    /\ pc = "done"
    /\ aqi = 0 - 7
    /\ Label(status) = "Good"

\* every caller that has a result has the result of a call run alone
ResultsAsAlone ==
    \A c \in DOMAIN frames :
        /\ frames[c].pc \in {"calc", "done"} =>
               frames[c].aqi = calc_aqi(frames[c].pm25)
        /\ frames[c].pc = "done" =>
               frames[c].status = get_aqi_status(calc_aqi(frames[c].pm25))
        /\ frames[c].pc \in {"compute", "calc", "done"} =>
               frames[c].arm = calc_aqi_branch(frames[c].pm25)

Colour(st) == st[3]

SameBand(a, b) == \E k \in 1..6 : InBand(k, a) /\ InBand(k, b)

\* C14: the tuple is a function of the band: an index of the same band as
\* the classified one gets the same (label, emoji, colour, background)
\* tuple, an index of another band a different label and a different colour.
C14_ColourOfBand ==
    pc = "done" =>
        \A j \in Index :
            IF SameBand(aqi, j)
            THEN get_aqi_status(j) = status
            ELSE /\ Label(get_aqi_status(j)) # Label(status)
                 /\ Colour(get_aqi_status(j)) # Colour(status)

C14_Witness ==
    /\ pc = "done"
    /\ aqi = 151
    /\ Colour(status) = "#ff0000"

\* C19: load_latest_data returns exactly one row for every site of the
\* table and none for any other site, and the row of a site is a row of the
\* table with the greatest datetime among the rows of that site, also when
\* several rows share that datetime.
C19_LatestPerSite ==
    loaded =>
        /\ Sites(latest_data) = Sites(table)
        /\ \A i, j \in 1..Len(latest_data) :
               i # j => latest_data[i].site # latest_data[j].site
        /\ \A i \in 1..Len(latest_data) :
               /\ \E k \in 1..Len(table) : table[k] = latest_data[i]
               /\ \A k \in 1..Len(table) :
                      table[k].site = latest_data[i].site =>
                          table[k].datetime <= latest_data[i].datetime

\* a site with two rows sharing its greatest datetime, and another site
C19_Witness ==
    /\ loaded
    /\ Len(table) = 3
    /\ Len(latest_data) = 2
    /\ \E i, j \in 1..Len(table) :
           /\ i # j
           /\ table[i].site = table[j].site
           /\ table[i].datetime = table[j].datetime
           /\ table[i].pm25 # table[j].pm25
           /\ \E k \in 1..Len(latest_data) : latest_data[k] = table[i]

\* all five city-dependent panes hold what the builders give for city c
PanesBuiltFor(c) ==
    /\ map_pane = create_map(c, latest_data)
    /\ aqi_card = create_aqi_card(c, latest_data)
    /\ pollutant_cards = create_pollutant_cards(c, latest_data)
    /\ aqi_graph = create_historical_aqi_graph(c, table)
    /\ graph_header = create_graph_header(c)

\* c is the first city in sorted order, or None when there is no city
FirstInOrder(c) ==
    IF Sites(latest_data) = {} THEN c = None
    ELSE /\ c \in Sites(latest_data)
         /\ \E i \in 1..Len(SiteOrder) :
                /\ SiteOrder[i] = c
                /\ \A j \in 1..(i - 1) : SiteOrder[j] \notin Sites(latest_data)

\* C15: initially the selector is on the first city in sorted order and all
\* five panes are built for it; after any sequence of city changes, whenever
\* no watcher call is outstanding, all five panes are built for the
\* selected city.
C15_PanesFollowSelector ==
    /\ (FirstInOrder(city_selector) /\ PanesBuiltFor(city_selector))
    /\ [](pending = <<>> => PanesBuiltFor(city_selector))

\* two changes done: the panes show a city that is neither the first city
\* nor the one picked first
C15_Witness ==
    /\ pending = <<>>
    /\ city_selector = "York"
    /\ Sites(latest_data) = {"Bath", "Leeds", "York"}
    /\ graph_header.city = "York"
    /\ map_pane.highlight # <<>>
    /\ map_pane.highlight[1] = "York"
    /\ aqi_card.kind = "aqi_card"
    /\ aqi_card.city = "York"
    /\ time_range = "Last 24 Hours"

\* C16: whenever the AQI card shows a city of the latest data, its index is
\* calc_aqi of the pm25 of that city's latest row, and its status and colour
\* are those get_aqi_status gives for that index.
C16_CardIndex ==
    (aqi_card.kind = "aqi_card" /\ aqi_card.city \in Sites(latest_data)) =>
        LET row == FirstRow(latest_data, aqi_card.city)
        IN /\ \A k \in 1..Len(table) :
                  table[k].site = aqi_card.city => table[k].datetime <= row.datetime
           /\ aqi_card.aqi = calc_aqi(row.pm25)
           /\ aqi_card.status = Label(get_aqi_status(aqi_card.aqi))
           /\ aqi_card.color = Colour(get_aqi_status(aqi_card.aqi))

C16_Witness ==
    /\ aqi_card.kind = "aqi_card"
    /\ aqi_card.city = "Leeds"
    /\ "Bath" \in Sites(latest_data)
    /\ aqi_card.pm25 = 1000
    /\ aqi_card.aqi = 196
    /\ aqi_card.status = "Unhealthy"

\* C17: a change of the time range, in any state, leaves the five panes and
\* the selected city as they are and schedules no watcher call.
C17_TimeRangeInert ==
    [][time_range' # time_range =>
          /\ UNCHANGED paneVars
          /\ city_selector' = city_selector
          /\ pending' = pending]_vars

C17_Witness ==
    /\ time_range = "Last 30 Days"
    /\ city_selector = "Leeds"
    /\ "Bath" \in Sites(latest_data)
    /\ pending = <<>>
    /\ PanesBuiltFor("Leeds")

\* C18: called with a city that the loaded data does not hold, a builder
\* returns its placeholder: the text "City data not available" (AQI card,
\* pollutant cards), the default UK view without highlight (map), an empty
\* figure (trend chart, pollutants chart), and for the historical graph
\* None for an empty city, else the "No historical data available" figure.
C18_Placeholders ==
    (call.done /\ call.city \notin Sites(latest_data)) =>
        LET r == call.result
        IN /\ call.fn \in {"create_aqi_card", "create_pollutant_cards"} =>
                  r = [kind |-> "text", text |-> "City data not available"]
           /\ call.fn = "create_map" =>
                  /\ r.kind = "map"
                  /\ r.center = <<545, 0 - 30>>
                  /\ r.zoom = 55
                  /\ r.highlight = <<>>
           /\ call.fn \in {"create_trend_chart", "create_pollutants_chart"} =>
                  r = [kind |-> "empty_figure"]
           /\ call.fn = "create_historical_aqi_graph" =>
                  IF call.city \in {None, ""}
                  THEN r = [kind |-> "none"]
                  ELSE /\ r.kind = "figure"
                       /\ r.annotation = "No historical data available for"
                       /\ r.city = call.city

C18_Witness ==
    /\ call # <<>>
    /\ call.done
    /\ call.fn = "create_historical_aqi_graph"
    /\ call.city = "York"
    /\ Sites(latest_data) = {"Bath", "Leeds"}
    /\ call.result.kind = "figure"

\* the datetimes of the readings of a city
TimesOf(city) == {table[k].datetime : k \in {i \in 1..Len(table) : table[i].site = city}}

\* the readings the claim says are plotted, as datetimes: those within 24
\* hours before the city's newest reading, or, when these are fewer than 5,
\* the 20 newest (all when there are fewer than 20)
PlottedTimes(city) ==
    LET ts == TimesOf(city)
        newest == CHOOSE t \in ts : \A u \in ts : u <= t
        window == {t \in ts : t >= newest - 24}
    IN IF Cardinality(window) >= 5 THEN window
       ELSE {t \in ts : Cardinality({u \in ts : u > t}) < 20}

\* C20: for a city with readings the historical graph plots, in time order,
\* the readings within 24 hours before the city's own newest reading, or
\* the city's last 20 readings (all when fewer) when that window holds
\* fewer than 5; each bar is calc_aqi of the reading's pm25.
C20_HistoricalWindow ==
    (call.done /\ call.fn = "create_historical_aqi_graph"
        /\ call.city \in Sites(table)) =>
        LET r == call.result
        IN /\ r.kind = "bars"
           /\ \A i \in 1..(Len(r.bars) - 1) : r.bars[i][1] < r.bars[i + 1][1]
           /\ {r.bars[i][1] : i \in 1..Len(r.bars)} = PlottedTimes(call.city)
           /\ \A i \in 1..Len(r.bars) :
                  \E k \in 1..Len(table) :
                      /\ table[k].site = call.city
                      /\ table[k].datetime = r.bars[i][1]
                      /\ r.bars[i][2] = calc_aqi(table[k].pm25)

\* more than 20 readings, fewer than 5 of them in the window: 20 bars
C20_Witness ==
    /\ call # <<>>
    /\ call.done
    /\ call.fn = "create_historical_aqi_graph"
    /\ Cardinality(TimesOf("Bath")) = 23
    /\ Cardinality({t \in TimesOf("Bath") :
                      \A u \in TimesOf("Bath") : t >= u - 24}) = 4
    /\ call.result.kind = "bars"
    /\ Len(call.result.bars) = 20

\* C21: for a city with at least one reading the historical graph has at
\* least one bar and its bars include the city's newest reading, so the
\* result is never the "No data available for" placeholder.
C21_LatestPlotted ==
    (call.done /\ call.fn = "create_historical_aqi_graph"
        /\ call.city \in Sites(table)) =>
        LET r == call.result
            ts == TimesOf(call.city)
            newest == CHOOSE t \in ts : \A u \in ts : u <= t
        IN /\ r # [kind |-> "figure", annotation |-> "No data available for",
                   city |-> call.city]
           /\ r.kind = "bars"
           /\ Len(r.bars) >= 1
           /\ \E i \in 1..Len(r.bars) : r.bars[i][1] = newest

\* 21 readings more than a day apart: the window holds the newest alone
C21_Witness ==
    /\ call # <<>>
    /\ call.done
    /\ call.fn = "create_historical_aqi_graph"
    /\ Cardinality(TimesOf("Bath")) = 21
    /\ \A t, u \in TimesOf("Bath") : t # u => (t - u > 24 \/ u - t > 24)
    /\ call.result.kind = "bars"
    /\ Len(call.result.bars) = 20

\* C22: a missing reading (NaN) is not rejected: it fails all seven
\* comparisons of calc_aqi, takes the final arm, gets the index 500 and the
\* label Hazardous.
C22_MissingReading ==
    \A c \in DOMAIN frames :
        frames[c].pm25 = NaN =>
            /\ frames[c].pc \in {"compute", "calc", "done"} => frames[c].arm = 8
            /\ frames[c].pc \in {"calc", "done"} => frames[c].aqi = 500
            /\ frames[c].pc = "done" => Label(frames[c].status) = "Hazardous"

C22_Witness ==
    /\ frames # <<>>
    /\ frames[1].pm25 = NaN
    /\ frames[1].pc = "done"
    /\ frames[1].arm = 8
    /\ Label(frames[1].status) = "Hazardous"

\* C23: the calc_aqi of urban_air_quality_dashboard.py and the calc_aqi of
\* panel_air_quality_dashboard.py give the same index for every reading:
\* what a call of one returned is what the other gives for that reading.
C23_SameIndex ==
    call.done =>
        /\ call.file = "urban" => call.result = calc_aqi(call.pm25)
        /\ call.file = "panel" => call.result = urban_calc_aqi(call.pm25)

C23_Witness ==
    /\ call # <<>>
    /\ call.done
    /\ call.file = "urban"
    /\ call.pm25 = 1504
    /\ call.result = 250

\* the git commands a script has attempted after git --version, in order
GitCommands == IF commands = <<>> THEN <<>> ELSE Tail(commands)

Succeeded(c) == \E i \in 1..Len(GitCommands) :
                    GitCommands[i].cmd = c /\ GitCommands[i].outcome = "ok"

Attempted(c) == \E i \in 1..Len(GitCommands) : GitCommands[i].cmd = c

StepOrder ==
    [push_to_existing_repo |->
        <<"init", "remote add", "add", "commit", "branch -M main", "push">>,
     setup_new_deployment |->
        <<"init", "add", "commit", "branch -M main", "remote add", "push">>]

AllSixSucceeded ==
    /\ Len(GitCommands) = 6
    /\ \A i \in 1..6 : GitCommands[i].outcome = "ok"

\* C24: the git steps of setup_repository and of setup_git_repo run in the
\* order of the source; a step is attempted only if every earlier one
\* succeeded; push only after commit and remote add both succeeded; and the
\* function returns True exactly when all six succeeded, False otherwise.
C24_StepsInOrder ==
    proc.script \in GitScripts =>
        /\ Len(GitCommands) <= 6
        /\ \A i \in 1..Len(GitCommands) :
            /\ GitCommands[i].cmd = StepOrder[proc.script][i]
            /\ \A j \in 1..(i - 1) : GitCommands[j].outcome = "ok"
        /\ Attempted("push") => Succeeded("commit") /\ Succeeded("remote add")
        /\ proc.pc = "setup" => proc.ret = "None"
        /\ proc.pc \in {"after_setup", "done"} =>
            /\ proc.ret \in {"True", "False"}
            /\ proc.ret = "True" <=> AllSixSucceeded

C24_Witness ==
    /\ proc # <<>>
    /\ proc.script = "setup_new_deployment"
    /\ proc.pc = "after_setup"
    /\ proc.ret = "False"
    /\ Len(GitCommands) = 5
    /\ GitCommands[5] = [cmd |-> "remote add", outcome |-> "nonzero"]
    /\ ~Attempted("push")

RepoChanging == {"init", "add", "commit", "branch -M main", "remote add", "push"}

RanRepoChanging == \E i \in 1..Len(commands) : commands[i].cmd \in RepoChanging

AllRequiredExist ==
    {"panel_air_quality_dashboard.py", "air_quality.sqlite", "requirements.txt",
     "render.yaml"} \subseteq env.files

Blank(s) == \A i \in 1..Len(s) : s[i] = " "

\* C25: main of either script runs no repository-changing git command
\* unless git is installed and the four required files exist, and otherwise
\* exits with status 1; main of setup_new_deployment also exits with status
\* 1, having run none of them, when the URL entered is empty once stripped.
C25_NoGitWithoutPrerequisites ==
    proc.script \in GitScripts =>
        /\ RanRepoChanging => env.git /\ AllRequiredExist
        /\ (~env.git \/ ~AllRequiredExist) /\ proc.pc \notin {"check_git", "check_files"}
              => proc.pc = "exited" /\ proc.code = 1
        /\ proc.script = "setup_new_deployment" =>
            /\ RanRepoChanging => ~Blank(proc.typed)
            /\ Blank(proc.typed) /\ proc.pc \notin {"check_git", "check_files", "repo_url"}
                  => proc.pc = "exited" /\ proc.code = 1 /\ ~RanRepoChanging

C25_Witness ==
    /\ proc # <<>>
    /\ proc.script = "setup_new_deployment"
    /\ env.git
    /\ AllRequiredExist
    /\ proc.typed = <<" ">>
    /\ proc.pc = "exited"
    /\ proc.code = 1
    /\ ~RanRepoChanging

Launched == commands # <<>> /\ commands[Len(commands)].cmd = "panel serve"

\* C26: in deploy_local nothing raised while the server is started or runs
\* leaves main: a missing panel command, a keyboard interrupt and any other
\* exception each end with a message printed and main returning normally;
\* and get_local_ip returns "127.0.0.1", raising nothing, when a socket call
\* failed.
C26_NothingPropagates ==
    proc.script = "deploy_local" =>
        /\ proc.pc # "raised"
        /\ proc.raised = "None"
        /\ Launched =>
            LET o == commands[Len(commands)].outcome
            IN /\ proc.pc = "done"
               /\ proc.code = 0
               /\ o = "FileNotFoundError" => proc.message = "'panel' command not found"
               /\ o = "KeyboardInterrupt" => proc.message = "Server stopped by user"
               /\ o = "OSError" => proc.message = "Error starting server"
               /\ o \notin {"ok", "nonzero"} => proc.message # "None"
        /\ proc.failed # "none" => proc.local_ip = "127.0.0.1"

C26_Witness ==
    /\ proc # <<>>
    /\ proc.script = "deploy_local"
    /\ proc.failed = "connect"
    /\ proc.local_ip = "127.0.0.1"
    /\ Launched
    /\ commands[Len(commands)].outcome = "OSError"
    /\ proc.pc = "done"
    /\ proc.message = "Error starting server"

====
